---- MODULE Spec2Model ----
(***************************************************************************)
(* Model of dupes (src/dupes.go): a directory walk feeds every entry to    *)
(* processFile, which maintains the primary index h1HM (xxHash -> first    *)
(* path) and the group map h2HM (xxHash ++ HighwayHash -> paths); main     *)
(* then reports the groups through printDupes.                             *)
(*                                                                         *)
(* Strings are sequences of byte values.  Paths are the numbers 1..n in    *)
(* the order filepath.Walk visits them (lexical order); the root is 0.     *)
(* A file's content is a number of Contents; a directory has content 0.    *)
(***************************************************************************)
EXTENDS Integers, Sequences, FiniteSets, TLC

\* Bounds of the model.
MaxFiles == 3
NumContents == 3
MaxProgress == 1
MaxArgs == 3
MaxArgFiles == 2

Paths == 1..MaxFiles
Contents == 1..NumContents

VARIABLES
    fs,           \* directory tree: entry (path) -> content, 0 for a directory
    rootOk,       \* the root exists and its entries can be read
    args,         \* os.Args[1:]
    dupeDir,      \* the directory to scan
    json_file,    \* the path given with -j/--json
    json_output,  \* -j/--json given
    pc,           \* position of main: "args", "walk", "report", "done"
    idx,          \* next entry filepath.Walk hands to the callback (0 = root)
    h1HM,         \* primary index: xxHash string -> first path seen
    h2HM,         \* group map: composite key -> sequence of paths
    dupeCount,
    fileCount,
    stdout,       \* lines printed so far
    jsonFile,     \* the file at json_file
    exitCode,     \* process exit status, -1 while running
    hhCalls,      \* observation: path -> number of computeHighwayHash calls on it
    failedOpens   \* observation: paths whose open/read has failed

vars == <<fs, rootOk, args, dupeDir, json_file, json_output, pc, idx, h1HM, h2HM, dupeCount, fileCount, stdout,
          jsonFile, exitCode, hhCalls, failedOpens>>

(***************************************************************************)
(* Strings, digests and the two hash maps                                  *)
(***************************************************************************)

\* One lower-case hex digit as its ASCII byte.
HexDigit(v) == IF v < 10 THEN 48 + v ELSE 87 + v

\* hex.EncodeToString: two hex digits per input byte.
EncodeToString(b) ==
    [i \in 1..(2 * Len(b)) |->
        IF i % 2 = 1 THEN HexDigit(b[(i + 1) \div 2] \div 16)
                     ELSE HexDigit(b[i \div 2] % 16)]

\* fmt's %x verb applied to a string: two hex digits per byte of the string.
Sprintf_x(s) == EncodeToString(s)

\* The digest bytes of a content.  Contents 2k and 2k+1 collide on the
\* primary digest; the secondary digest separates all contents.
xxhashSum(c) == <<16 + (c \div 2)>>
highwaySum(c) == <<160 + c>>

computeXXHash(c) == EncodeToString(xxhashSum(c))
computeHighwayHash(c) == EncodeToString(highwaySum(c))

\* hashmap.New / Set / GetStringKey
EmptyMap == <<>>
HasKey(hm, k) == k \in DOMAIN hm
Set(hm, k, v) == [x \in (DOMAIN hm) \cup {k} |-> IF x = k THEN v ELSE hm[x]]

addDupesToHashMap(key, path, hm) == Set(hm, key, <<path>>)

\* hash1String + hash2String
compositeKeyPrimaryOnly(hash1String, hash2String) == hash1String
compositeKey(hash1String, hash2String) == hash1String \o hash2String

(***************************************************************************)
(* Output lines                                                            *)
(***************************************************************************)
Line(kind, num, path, text) == [kind |-> kind, n |-> num, path |-> path, text |-> text]

ProgressLine(count)   == Line("Files processed:", count, 0, <<>>)
ErrOpenLine(path)     == Line("Error opening file", 0, path, <<>>)
HashLine(text)        == Line("Hash:", 0, 0, text)
FileLine(i, path)     == Line("file", i, path, <<>>)
BlankLine             == Line("", 0, 0, <<>>)
HeaderLine(count)     == Line("Files with duplicates found:", count, 0, <<>>)
NoDupesLine           == Line("No duplicate files exist in the specified directory.", 0, 0, <<>>)
JsonWriteErrLine      == Line("Error writing JSON file, please check permissions and that the directory exists.", 0, 0, <<>>)

(***************************************************************************)
(* processFile                                                             *)
(***************************************************************************)

\* The state processFile works on.
State == [h1HM |-> h1HM, h2HM |-> h2HM, dupeCount |-> dupeCount,
          fileCount |-> fileCount, stdout |-> stdout,
          hhCalls |-> hhCalls, failedOpens |-> failedOpens]

CountHH(calls, p) == [calls EXCEPT ![p] = @ + 1]

\* Line 181: the group of the earlier file is (re)set to that file alone.
seedPrevFile(hash1String, hash2StringPrevFile, val, hm) ==
    addDupesToHashMap(compositeKey(hash1String, hash2StringPrevFile), val, hm)

\* recordCurrent, appending the current file twice to an existing group.
recordCurrentAppendsTwice(st, key, path) ==
    IF HasKey(st.h2HM, key)
    THEN [st EXCEPT !.dupeCount = @ + 1,
                    !.h2HM = Set(@, key, Append(Append(st.h2HM[key], path), path))]
    ELSE [st EXCEPT !.h2HM = addDupesToHashMap(key, path, @)]

\* Lines 190-197: the current file joins the group of its composite key.
recordCurrent(st, key, path) ==
    IF HasKey(st.h2HM, key)
    THEN [st EXCEPT !.dupeCount = @ + 1,
                    !.h2HM = Set(@, key, Append(st.h2HM[key], path))]
    ELSE [st EXCEPT !.h2HM = addDupesToHashMap(key, path, @)]

\* primaryHit, hashing the current file a second time.
primaryHitHashesTwice(st, path, content, hash1String) ==
    LET val == st.h1HM[hash1String]
        hash2StringPrevFile == computeHighwayHash(fs[val])
        s1 == [st EXCEPT !.h2HM = seedPrevFile(hash1String, hash2StringPrevFile, val, @),
                         !.hhCalls = CountHH(@, val)]
        hash2String == computeHighwayHash(content)
        s2 == [s1 EXCEPT !.hhCalls = CountHH(CountHH(@, path), path)]
    IN recordCurrent(s2, compositeKey(hash1String, hash2String), path)

\* primaryHit, making the current file the first-seen file of its digest.
primaryHitOverwritesIndex(st, path, content, hash1String) ==
    LET val == st.h1HM[hash1String]
        hash2StringPrevFile == computeHighwayHash(fs[val])
        s1 == [st EXCEPT !.h2HM = seedPrevFile(hash1String, hash2StringPrevFile, val, @),
                         !.hhCalls = CountHH(@, val),
                         !.h1HM = Set(@, hash1String, path)]
        hash2String == computeHighwayHash(content)
        s2 == [s1 EXCEPT !.hhCalls = CountHH(@, path)]
    IN recordCurrent(s2, compositeKey(hash1String, hash2String), path)

\* Lines 168-197, after both reads succeeded.  content: the bytes of path; the
\* bytes re-read from the earlier file val are fs[val].
primaryHit(st, path, content, hash1String) ==
    LET val == st.h1HM[hash1String]
        hash2StringPrevFile == computeHighwayHash(fs[val])
        s1 == [st EXCEPT !.h2HM = seedPrevFile(hash1String, hash2StringPrevFile, val, @),
                         !.hhCalls = CountHH(@, val)]
        hash2String == computeHighwayHash(content)
        s2 == [s1 EXCEPT !.hhCalls = CountHH(@, path)]
    IN recordCurrent(s2, compositeKey(hash1String, hash2String), path)

\* Lines 157-160: the current file cannot be opened or read.
openFailed(st, path) ==
    [st EXCEPT !.stdout = Append(@, ErrOpenLine(path)),
               !.failedOpens = @ \cup {path}]

\* prevOpenFailed, counting the current file as a duplicate all the same.
prevOpenFailedCounts(st, path, val) ==
    [st EXCEPT !.stdout = Append(@, ErrOpenLine(path)),
               !.failedOpens = @ \cup {val},
               !.dupeCount = @ + 1]

\* Lines 171-174: the earlier file val cannot be opened or read again.
prevOpenFailed(st, path, val) ==
    [st EXCEPT !.stdout = Append(@, ErrOpenLine(path)),
               !.failedOpens = @ \cup {val}]

\* primaryMiss, computing the secondary hash of the file at once.
primaryMissHashes(st, path, hash1String) ==
    [st EXCEPT !.h1HM = Set(@, hash1String, path),
               !.hhCalls = CountHH(@, path)]

\* primaryMiss, creating the group of the file at once.
primaryMissSeeds(st, path, hash1String) ==
    [st EXCEPT !.h1HM = Set(@, hash1String, path),
               !.h2HM = addDupesToHashMap(
                            compositeKey(hash1String, computeHighwayHash(fs[path])), path, @)]

\* Line 199: no earlier file has this primary digest.
primaryMiss(st, path, hash1String) ==
    [st EXCEPT !.h1HM = Set(@, hash1String, path)]

\* processFile(path, info, err, ...): content 0 stands for info.IsDir().
\* elapsed: currTime - *prevTime >= 5; openOk: getDualReaders(path) succeeds;
\* prevOk: getSingleReader(val) succeeds.  The hashes are computed over
\* in-memory readers with a valid constant key, so the error returns of
\* computeXXHash and computeHighwayHash (lines 163-166, 177-180, 185-188) are
\* never taken.
processFile(st, path, content, err, elapsed, openOk, prevOk) ==
    LET s0 == [st EXCEPT !.fileCount = @ + 1,
                         !.stdout = IF elapsed THEN Append(@, ProgressLine(st.fileCount + 1))
                                               ELSE @]
    IN  IF err THEN [st |-> s0, ret |-> "err"]
        ELSE IF content = 0 THEN [st |-> s0, ret |-> "nil"]
        ELSE IF ~openOk
             THEN [st |-> openFailed(s0, path), ret |-> "nil"]
        ELSE LET hash1String == computeXXHash(content) IN
             IF HasKey(s0.h1HM, hash1String)
             THEN IF ~prevOk
                  THEN [st |-> prevOpenFailed(s0, path, s0.h1HM[hash1String]),
                        ret |-> "nil"]
                  ELSE [st |-> primaryHit(s0, path, content, hash1String), ret |-> "nil"]
             ELSE [st |-> primaryMiss(s0, path, hash1String), ret |-> "nil"]

(***************************************************************************)
(* printDupes                                                              *)
(***************************************************************************)

\* Line 42: only groups with more than one path are printed.
reportableAny(dupes) == Len(dupes) >= 1
reportable(dupes) == Len(dupes) > 1

\* One iteration of the loop over hm.Iter() (lines 40-57).
printEntry(acc, key, dupes, json_out) ==
    IF reportable(dupes)
    THEN [out  |-> acc.out \o <<HashLine(Sprintf_x(key))>>
                       \o [i \in 1..Len(dupes) |-> FileLine(i, dupes[i])]
                       \o <<BlankLine>>,
          json |-> IF json_out
                   THEN Append(acc.json, [hash |-> key, files |-> dupes])
                   ELSE acc.json]
    ELSE acc

RECURSIVE printLoop(_, _, _, _)
printLoop(hm, order, json_out, acc) ==
    IF order = <<>> THEN acc
    ELSE printLoop(hm, Tail(order), json_out,
                   printEntry(acc, Head(order), hm[Head(order)], json_out))

\* json.Marshal of a []dupe: a nil slice is encoded as null, not as [].
Marshal(json_dupes) ==
    IF json_dupes = <<>> THEN [exists |-> TRUE, null |-> TRUE,  arr |-> <<>>]
                         ELSE [exists |-> TRUE, null |-> FALSE, arr |-> json_dupes]

NoFile == [exists |-> FALSE, null |-> FALSE, arr |-> <<>>]

\* printDupes(hm, json_output, json_file); order: the order hm.Iter() yields
\* the keys; writeOk: ioutil.WriteFile succeeds.
printDupes(hm, json_out, order, writeOk, file) ==
    LET acc == printLoop(hm, order, json_out, [out |-> <<>>, json |-> <<>>])
    IN  IF ~json_out THEN [out |-> acc.out, file |-> file, ret |-> "nil"]
        ELSE IF writeOk
             THEN [out |-> acc.out, file |-> Marshal(acc.json), ret |-> "nil"]
             ELSE [out |-> acc.out \o <<JsonWriteErrLine>>, file |-> file, ret |-> "err"]

\* The orders in which hm.Iter() can yield the keys of hm.
IterOrders(hm) ==
    {o \in [1..Cardinality(DOMAIN hm) -> DOMAIN hm] :
        \A i, j \in DOMAIN o : i # j => o[i] # o[j]}

(***************************************************************************)
(* main                                                                    *)
(***************************************************************************)

NumEntries == Cardinality(DOMAIN fs)

\* Command-line arguments: "-j", "--json", an unknown flag "-x", the names
\* "d" and "e", and the empty string.
Arg_j == <<45, 106>>
Arg_json == <<45, 45, 106, 115, 111, 110>>
Arg_x == <<45, 120>>
Arg_d == <<100>>
Arg_e == <<101>>
Arg_empty == <<>>
ArgTokens == {Arg_j, Arg_json, Arg_x, Arg_d, Arg_e, Arg_empty}
ArgLists == UNION {[1..n -> ArgTokens] : n \in 0..MaxArgs}

UsageLine == Line("Usage: dupes [OPTIONS] <dupe_directory>", 0, 0, <<>>)
NoJsonFileLine == Line("Error: No JSON output file specified", 0, 0, <<>>)
InvalidFlagLine(arg) == Line("Error: Invalid flag", 0, 0, arg)
NoDirLine == Line("Error: No directory specified to scan for duplicate files", 0, 0, <<>>)

\* The outcomes of the argument handling: the scan starts, the process exits
\* with status 1 after printing usage, or the runtime panics.
ArgsOk(r) == [status |-> "ok", out |-> <<>>, r |-> r]
ArgsUsage(lines, r) == [status |-> "usage", out |-> lines \o <<UsageLine>>, r |-> r]
ArgsPanic(r) == [status |-> "panic", out |-> <<>>, r |-> r]

\* Lines 215-241: the loop over args from position i (1-based) and the check
\* of dupeDir after it.  args[i][0] of an empty argument is an index out of
\* range.
RECURSIVE argLoop(_, _, _)
argLoop(a, i, r) ==
    IF i > Len(a)
    THEN IF r.dupeDir = <<>> THEN ArgsUsage(<<NoDirLine>>, r) ELSE ArgsOk(r)
    ELSE IF a[i] = <<>> THEN ArgsPanic(r)
    ELSE IF a[i][1] = 45
         THEN IF Tail(a[i]) = Tail(Arg_j) \/ Tail(a[i]) = Tail(Arg_json)
              THEN IF i + 1 > Len(a)
                   THEN ArgsUsage(<<NoJsonFileLine>>, r)
                   ELSE argLoop(a, i + 2, [r EXCEPT !.json_output = TRUE,
                                                    !.json_file = a[i + 1]])
              ELSE ArgsUsage(<<InvalidFlagLine(a[i])>>, r)
         ELSE argLoop(a, i + 1, [r EXCEPT !.dupeDir = a[i]])

\* Lines 205-241.
parseArgs(a) ==
    LET r0 == [json_output |-> FALSE, json_file |-> <<>>, dupeDir |-> <<>>]
    IN  IF Len(a) < 1 THEN ArgsUsage(<<>>, r0) ELSE argLoop(a, 1, r0)

\* The state of main after the maps are created (lines 243-247); first,
\* fields of the state that the argument handling does not set.
InitRest ==
    /\ rootOk \in BOOLEAN
    /\ idx = 0
    /\ h1HM = EmptyMap
    /\ h2HM = EmptyMap
    /\ dupeCount = 0
    /\ fileCount = 0
    /\ stdout = <<>>
    /\ jsonFile = NoFile
    /\ exitCode = -1
    /\ hhCalls = [p \in Paths |-> 0]
    /\ failedOpens = {}

\* The scan of a directory given on a well-formed command line, without or
\* with -j.
Init ==
    /\ \E n \in 0..MaxFiles : fs \in [1..n -> 0..NumContents]
    /\ args \in {<<Arg_d>>, <<Arg_j, Arg_e, Arg_d>>}
    /\ json_output = parseArgs(args).r.json_output
    /\ json_file = parseArgs(args).r.json_file
    /\ dupeDir = parseArgs(args).r.dupeDir
    /\ pc = "walk"
    /\ InitRest

\* The whole program, from any command line, over a small tree.
InitArgs ==
    /\ \E n \in 0..MaxArgFiles : fs \in [1..n -> 0..NumContents]
    /\ args \in ArgLists
    /\ json_output = FALSE
    /\ json_file = <<>>
    /\ dupeDir = <<>>
    /\ pc = "args"
    /\ InitRest

\* Lines 205-241: main handles the arguments.  A panic ends the process with
\* status 2.
ParseArgs ==
    /\ pc = "args"
    /\ LET p == parseArgs(args) IN
          /\ json_output' = p.r.json_output
          /\ json_file' = p.r.json_file
          /\ dupeDir' = p.r.dupeDir
          /\ stdout' = stdout \o p.out
          /\ pc' = IF p.status = "ok" THEN "walk" ELSE "done"
          /\ exitCode' = IF p.status = "ok" THEN exitCode
                         ELSE IF p.status = "usage" THEN 1 ELSE 2
    /\ UNCHANGED <<fs, rootOk, args, idx, h1HM, h2HM, dupeCount, fileCount,
                   jsonFile, hhCalls, failedOpens>>

\* Callback, with main not looking at what Walk returns.
CallbackIgnoresErr(r) ==
    /\ h1HM' = r.st.h1HM
    /\ h2HM' = r.st.h2HM
    /\ dupeCount' = r.st.dupeCount
    /\ fileCount' = r.st.fileCount
    /\ stdout' = r.st.stdout
    /\ hhCalls' = r.st.hhCalls
    /\ failedOpens' = r.st.failedOpens
    /\ idx' = idx + 1
    /\ pc' = IF r.ret = "err" \/ idx = NumEntries THEN "report" ELSE "walk"
    /\ exitCode' = exitCode
    /\ UNCHANGED <<fs, rootOk, args, dupeDir, json_file, json_output, jsonFile>>

\* The callback's effect on the state, and main's reaction to what Walk returns.
Callback(r) ==
    /\ h1HM' = r.st.h1HM
    /\ h2HM' = r.st.h2HM
    /\ dupeCount' = r.st.dupeCount
    /\ fileCount' = r.st.fileCount
    /\ stdout' = r.st.stdout
    /\ hhCalls' = r.st.hhCalls
    /\ failedOpens' = r.st.failedOpens
    /\ idx' = idx + 1
    /\ IF r.ret = "err"
       THEN pc' = "done" /\ exitCode' = 3
       ELSE /\ pc' = IF idx = NumEntries THEN "report" ELSE "walk"
            /\ exitCode' = exitCode
    /\ UNCHANGED <<fs, rootOk, args, dupeDir, json_file, json_output, jsonFile>>

\* The progress lines printed so far, and the values currTime - *prevTime >= 5
\* may take: at most MaxProgress progress lines are printed in a run.
ProgressCount == Cardinality({i \in 1..Len(stdout) : stdout[i].kind = "Files processed:"})
Elapsed == IF ProgressCount < MaxProgress THEN BOOLEAN ELSE {FALSE}

\* filepath.Walk calls the callback for the root directory; err is the
\* failure of Lstat(root) or of reading the root's entries.
WalkRoot ==
    /\ pc = "walk"
    /\ idx = 0
    /\ \E elapsed \in Elapsed :
          Callback(processFile(State, 0, 0, ~rootOk, elapsed, TRUE, TRUE))

\* filepath.Walk calls the callback for the next entry below the root; err is
\* the failure of Lstat on it or, for a directory, of reading its entries.
WalkEntry ==
    /\ pc = "walk"
    /\ idx \in 1..NumEntries
    /\ \E err \in BOOLEAN, elapsed \in Elapsed, openOk \in BOOLEAN, prevOk \in BOOLEAN :
          Callback(processFile(State, idx, fs[idx], err, elapsed, openOk, prevOk))

\* Lines 257-262, dupeCount > 0.
ReportDupes ==
    /\ pc = "report"
    /\ dupeCount > 0
    /\ \E order \in IterOrders(h2HM), writeOk \in BOOLEAN :
          LET r == printDupes(h2HM, json_output, order, writeOk, jsonFile)
          IN  /\ stdout' = stdout \o <<HeaderLine(dupeCount)>> \o r.out
              /\ jsonFile' = r.file
    /\ pc' = "done"
    /\ exitCode' = 0
    /\ UNCHANGED <<fs, rootOk, args, dupeDir, json_file, json_output, idx, h1HM, h2HM, dupeCount, fileCount,
                   hhCalls, failedOpens>>

\* Lines 257-262, dupeCount = 0.
ReportNone ==
    /\ pc = "report"
    /\ ~(dupeCount > 0)
    /\ stdout' = Append(stdout, NoDupesLine)
    /\ pc' = "done"
    /\ exitCode' = 0
    /\ UNCHANGED <<fs, rootOk, args, dupeDir, json_file, json_output, idx, h1HM, h2HM, dupeCount, fileCount,
                   jsonFile, hhCalls, failedOpens>>

Next == WalkRoot \/ WalkEntry \/ ReportDupes \/ ReportNone

Spec == Init /\ [][Next]_vars

\* The scan of a directory all of whose files share one primary digest.
CollidingContents == {c \in Contents : xxhashSum(c) = xxhashSum(2)}

InitCollide ==
    /\ \E n \in 0..(MaxFiles + 1) : fs \in [1..n -> CollidingContents]
    /\ rootOk = TRUE
    /\ args = <<Arg_d>>
    /\ json_output = parseArgs(args).r.json_output
    /\ json_file = parseArgs(args).r.json_file
    /\ dupeDir = parseArgs(args).r.dupeDir
    /\ pc = "walk"
    /\ idx = 0
    /\ h1HM = EmptyMap
    /\ h2HM = EmptyMap
    /\ dupeCount = 0
    /\ fileCount = 0
    /\ stdout = <<>>
    /\ jsonFile = NoFile
    /\ exitCode = -1
    /\ hhCalls = [p \in 1..(MaxFiles + 1) |-> 0]
    /\ failedOpens = {}

SpecCollide == InitCollide /\ [][Next]_vars

NextArgs == ParseArgs \/ WalkRoot \/ WalkEntry \/ ReportDupes \/ ReportNone

SpecArgs == InitArgs /\ [][NextArgs]_vars

(***************************************************************************)
(* Vocabulary of the properties                                            *)
(***************************************************************************)

\* The regular files of the tree and the composite key of a file's content.
Files == {p \in DOMAIN fs : fs[p] # 0}
FileKey(p) == computeXXHash(fs[p]) \o computeHighwayHash(fs[p])

Members(hm, k) == {hm[k][i] : i \in 1..Len(hm[k])}
BigGroups(hm) == {k \in DOMAIN hm : Len(hm[k]) >= 2}

\* The walk returned nil: main is at, or past, the report.
ScanCompleted == pc = "report" \/ (pc = "done" /\ exitCode = 0)
Reported == pc = "done" /\ exitCode = 0

\* The groups a console report shows, parsed back from its lines.
RECURSIVE ConsoleGroups(_, _)
ConsoleGroups(lines, acc) ==
    IF lines = <<>> THEN acc
    ELSE LET l == Head(lines) IN
         IF l.kind = "Hash:"
         THEN ConsoleGroups(Tail(lines),
                            Append(acc, [hash |-> l.text, nums |-> <<>>, files |-> <<>>]))
         ELSE IF l.kind = "file" /\ acc # <<>>
         THEN ConsoleGroups(Tail(lines),
                            [acc EXCEPT ![Len(acc)].nums = Append(@, l.n),
                                        ![Len(acc)].files = Append(@, l.path)])
         ELSE ConsoleGroups(Tail(lines), acc)

Printed == ConsoleGroups(stdout, <<>>)
HasLine(l) == \E i \in 1..Len(stdout) : stdout[i] = l

\* A scan of the files in the given order in which every read succeeds.
InitState == [h1HM |-> EmptyMap, h2HM |-> EmptyMap, dupeCount |-> 0, fileCount |-> 0,
              stdout |-> <<>>, hhCalls |-> [p \in Paths |-> 0], failedOpens |-> {}]

RECURSIVE ScanIn(_, _)
ScanIn(order, st) ==
    IF order = <<>> THEN st
    ELSE ScanIn(Tail(order),
                processFile(st, Head(order), fs[Head(order)], FALSE, FALSE, TRUE, TRUE).st)

OrdersOf(S) ==
    {o \in [1..Cardinality(S) -> S] : \A i, j \in DOMAIN o : i # j => o[i] # o[j]}

ReportableGroups(hm) == {<<k, Members(hm, k)>> : k \in BigGroups(hm)}

(***************************************************************************)
(* C1..C10                                                                 *)
(***************************************************************************)

\* C1: after a completed scan in which no read failed, every set of two or
\* more files with identical content is exactly the member set of the group
\* keyed by their composite key, that group has exactly that many entries,
\* and no other group holds any of those files.
C1_IdenticalFilesShareOneGroup ==
    (ScanCompleted /\ failedOpens = {}) =>
        \A p \in Files :
            LET S == {q \in Files : fs[q] = fs[p]} IN
            Cardinality(S) >= 2 =>
                /\ HasKey(h2HM, FileKey(p))
                /\ Members(h2HM, FileKey(p)) = S
                /\ Len(h2HM[FileKey(p)]) = Cardinality(S)
                /\ \A k \in DOMAIN h2HM : k # FileKey(p) => Members(h2HM, k) \cap S = {}

\* C2: no false positives: in every state every path stored in a group has
\* the group's key as the composite key of its content, so two files in one
\* group agree on the primary and on the secondary digest.
C2_NoFalsePositives ==
    \A k \in DOMAIN h2HM :
        \A p \in Members(h2HM, k) :
            /\ FileKey(p) = k
            /\ \A q \in Members(h2HM, k) :
                  /\ xxhashSum(fs[p]) = xxhashSum(fs[q])
                  /\ highwaySum(fs[p]) = highwaySum(fs[q])

\* C2 witness: a group of two files exists next to the group of a file that
\* shares only their primary digest.
C2_Witness ==
    \E k1, k2 \in DOMAIN h2HM :
        /\ k1 # k2
        /\ Len(h2HM[k1]) >= 2
        /\ \E p \in Members(h2HM, k1), q \in Members(h2HM, k2) :
              /\ xxhashSum(fs[p]) = xxhashSum(fs[q])
              /\ highwaySum(fs[p]) # highwaySum(fs[q])

\* C3: the reportable groups (key and member set) at the end of a scan without
\* read failures are the same for every order in which the files are passed
\* to processFile.
C3_OrderIndependent ==
    (ScanCompleted /\ failedOpens = {}) =>
        \A o \in OrdersOf(Files) :
            ReportableGroups(ScanIn(o, InitState).h2HM) = ReportableGroups(h2HM)

\* C4: when reads failed during a completed scan, every set of two or more
\* files with identical content none of whose reads failed is together in one
\* group with at least two members.
C4_ReadableIdenticalFilesGrouped ==
    (ScanCompleted /\ failedOpens # {}) =>
        \A p \in Files \ failedOpens :
            LET S == {q \in Files \ failedOpens : fs[q] = fs[p]} IN
            Cardinality(S) >= 2 =>
                \E k \in BigGroups(h2HM) : S \subseteq Members(h2HM, k)

\* C5: the traversal-failure exit status is only ever caused by the root: a
\* callback for an entry below the root never makes the process exit with it.
C5_NonRootErrorNeverAborts ==
    exitCode = 3 => idx = 1

\* C6: the report of a completed scan shows exactly the groups with two or
\* more members, each once, with its paths in stored order numbered from 1;
\* a JSON file that was written holds exactly these groups too.
C6_ReportIsExactlyBigGroups ==
    Reported =>
        /\ \A i \in 1..Len(Printed) :
              \E k \in BigGroups(h2HM) :
                  /\ Printed[i].hash = Sprintf_x(k)
                  /\ Printed[i].files = h2HM[k]
                  /\ Printed[i].nums = [j \in 1..Len(h2HM[k]) |-> j]
        /\ \A k \in BigGroups(h2HM) :
              Cardinality({i \in 1..Len(Printed) : Printed[i].hash = Sprintf_x(k)}) = 1
        /\ jsonFile.exists =>
              /\ \A i \in 1..Len(jsonFile.arr) :
                    /\ jsonFile.arr[i].hash \in BigGroups(h2HM)
                    /\ jsonFile.arr[i].files = h2HM[jsonFile.arr[i].hash]
              /\ \A k \in BigGroups(h2HM) :
                    Cardinality({i \in 1..Len(jsonFile.arr) : jsonFile.arr[i].hash = k}) = 1

\* C6 witness: a report was made, to console and JSON, of a map that holds a
\* group of two and a group of one.
C6_Witness ==
    /\ Reported
    /\ jsonFile.exists
    /\ Printed # <<>>
    /\ \E k1, k2 \in DOMAIN h2HM : Len(h2HM[k1]) >= 2 /\ Len(h2HM[k2]) = 1

\* C7: after a completed scan the no-duplicates line is printed if and only if
\* no group has two or more members, and the duplicates header is printed only
\* when a group with two or more members is listed.
C7_NoDupesReportIffNoBigGroup ==
    Reported =>
        /\ HasLine(NoDupesLine) <=> BigGroups(h2HM) = {}
        /\ HasLine(HeaderLine(dupeCount)) => Printed # <<>>

\* C8: with -j given, a completed scan whose write did not fail leaves a JSON
\* array at the path whose elements are exactly the groups with two or more
\* members; with no duplicates the array is empty.
C8_JsonArrayAlwaysWritten ==
    (Reported /\ json_output /\ ~HasLine(JsonWriteErrLine)) =>
        /\ jsonFile.exists
        /\ ~jsonFile.null
        /\ {<<jsonFile.arr[i].hash, jsonFile.arr[i].files>> : i \in 1..Len(jsonFile.arr)}
              = {<<k, h2HM[k]>> : k \in BigGroups(h2HM)}

\* C9: when writing the JSON file failed, the process exits with a non-zero
\* status.
C9_JsonFailureExitsNonZero ==
    (pc = "done" /\ HasLine(JsonWriteErrLine)) => exitCode # 0

\* C10: the groups in a written JSON file are the groups printed to the
\* console: same number, same order, each hash equal to the printed hash
\* string, each files list equal to the printed path list.
C10_JsonEqualsConsole ==
    (Reported /\ jsonFile.exists) =>
        /\ Len(jsonFile.arr) = Len(Printed)
        /\ \A i \in 1..Len(jsonFile.arr) :
              i <= Len(Printed) =>
                  /\ jsonFile.arr[i].hash = Printed[i].hash
                  /\ jsonFile.arr[i].files = Printed[i].files

(***************************************************************************)
(* C11..C20                                                                *)
(***************************************************************************)

\* The command line read by the synopsis dupes [-j|--json <path>] <directory>:
\* its positional arguments, whether it has an unknown flag, and whether a
\* -j/--json has no value after it.
IsFlag(a) == a # <<>> /\ a[1] = 45

RECURSIVE Classify(_)
Classify(a) ==
    IF a = <<>> THEN [pos |-> <<>>, unknown |-> FALSE, novalue |-> FALSE]
    ELSE IF Head(a) \in {Arg_j, Arg_json}
         THEN IF Len(a) = 1 THEN [pos |-> <<>>, unknown |-> FALSE, novalue |-> TRUE]
                            ELSE Classify(Tail(Tail(a)))
         ELSE LET r == Classify(Tail(a)) IN
              IF IsFlag(Head(a)) THEN [r EXCEPT !.unknown = TRUE]
                                 ELSE [r EXCEPT !.pos = <<Head(a)>> \o @]

UsageErrorArgs(a) ==
    \/ Classify(a).unknown
    \/ Classify(a).novalue
    \/ \A i \in 1..Len(Classify(a).pos) : Classify(a).pos[i] = <<>>

\* The files processFile has been called for.
Observed == {p \in Files : p < idx}
SamePrimary(p, q) == xxhashSum(fs[p]) = xxhashSum(fs[q])

\* C11: for every argument list with an unknown flag, a -j/--json without a
\* value, or no directory argument (an empty list or only empty-string
\* arguments), the program prints usage and exits with status 1 before any
\* entry is walked.
C11_UsageErrorsExitOne ==
    (pc # "args" /\ UsageErrorArgs(args)) =>
        /\ pc = "done"
        /\ exitCode = 1
        /\ HasLine(UsageLine)
        /\ fileCount = 0

\* C12: an argument list with two or more positional arguments is a usage
\* error and is not scanned; a scan is always of the single positional
\* argument.  (Argument lists without empty strings.)
C12_ExactlyOnePositional ==
    (pc # "args" /\ \A i \in 1..Len(args) : args[i] # <<>>) =>
        /\ Len(Classify(args).pos) >= 2 => (exitCode = 1 /\ fileCount = 0)
        /\ fileCount > 0 => (Len(Classify(args).pos) = 1 /\ dupeDir = Classify(args).pos[1])

\* C13: when the root does not exist or cannot be read, the scan aborts with
\* exit status 3 (not 0, not 1), no entry below the root is processed, and
\* neither a duplicate report nor the no-duplicates line nor a JSON file is
\* produced.
C13_RootFailureAborts ==
    ~rootOk =>
        /\ pc # "report"
        /\ idx <= 1
        /\ h1HM = EmptyMap /\ h2HM = EmptyMap
        /\ ~jsonFile.exists
        /\ \A i \in 1..Len(stdout) :
              stdout[i].kind \notin {HeaderLine(0).kind, NoDupesLine.kind, HashLine(<<>>).kind}
        /\ pc = "done" => exitCode = 3

\* C13 witness: the process has ended on an unreadable root with -j given.
C13_Witness == ~rootOk /\ pc = "done" /\ json_output /\ fileCount = 1

\* C14: groups never lose members: in every step each group that exists
\* before the step exists after it with its previous path sequence as a
\* prefix of the new one.
C14_GroupsOnlyGrow ==
    [][\A k \in DOMAIN h2HM :
           /\ k \in DOMAIN h2HM'
           /\ Len(h2HM'[k]) >= Len(h2HM[k])
           /\ SubSeq(h2HM'[k], 1, Len(h2HM[k])) = h2HM[k]]_vars

\* C15 as stated: computeHighwayHash is invoked at most twice for any path.
C15_AtMostTwoSecondaryHashes ==
    \A p \in DOMAIN hhCalls : hhCalls[p] <= 2

\* C15 as amended: computeHighwayHash is invoked at most once for a file that
\* is not the first-seen file of its primary digest, and for a first-seen file
\* at most once per later observed file that shares its primary digest.
C15_SecondaryHashesBounded ==
    \A p \in DOMAIN hhCalls :
        IF p \in Files /\ \E k \in DOMAIN h1HM : h1HM[k] = p
        THEN hhCalls[p] <= Cardinality({q \in Observed : q > p /\ SamePrimary(p, q)})
        ELSE hhCalls[p] <= 1

\* C15 witness: the first-seen file has been hashed three times, each later
\* file once.
C15_Witness ==
    \E p \in DOMAIN hhCalls :
        /\ hhCalls[p] = 3
        /\ \E q \in DOMAIN hhCalls : q # p /\ hhCalls[q] = 1

\* C16: computeHighwayHash is invoked only on files whose primary digest is
\* shared by another observed file; a scan in which all primary digests are
\* distinct performs no secondary hash and creates no group.
C16_NoSecondaryForUniquePrimary ==
    /\ \A p \in DOMAIN hhCalls :
          hhCalls[p] > 0 =>
              /\ p \in Observed
              /\ \E q \in Observed : q # p /\ SamePrimary(p, q)
    /\ (\A p, q \in Observed : p # q => ~SamePrimary(p, q)) =>
          /\ h2HM = EmptyMap
          /\ \A p \in DOMAIN hhCalls : hhCalls[p] = 0

\* C16 witness: a completed scan without read failures of two files with
\* different primary digests.
C16_Witness ==
    /\ ScanCompleted
    /\ failedOpens = {}
    /\ Cardinality(Observed) = 2
    /\ \A p, q \in Observed : p # q => ~SamePrimary(p, q)

\* C17 as stated: a group key is present only if at least two observed files
\* have that composite key.
C17_GroupKeyNeedsTwoFiles ==
    \A k \in DOMAIN h2HM :
        Cardinality({p \in Observed : FileKey(p) = k}) >= 2

\* C17 as amended: a group key is present only if it is the composite key of
\* an observed file whose primary digest another observed file shares; a
\* group with two or more members is present only if at least two observed
\* files have that composite key.
C17_GroupKeyNeedsPrimaryCollision ==
    \A k \in DOMAIN h2HM :
        /\ \E p, q \in Observed : p # q /\ FileKey(p) = k /\ SamePrimary(p, q)
        /\ Len(h2HM[k]) >= 2 =>
              Cardinality({p \in Observed : FileKey(p) = k}) >= 2

\* C17 witness: two files that share only the primary digest each have a
\* group of one.
C17_Witness ==
    \E k1, k2 \in DOMAIN h2HM :
        /\ k1 # k2
        /\ Len(h2HM[k1]) = 1 /\ Len(h2HM[k2]) = 1
        /\ Cardinality({p \in Observed : FileKey(p) = k1}) = 1

\* C18: a processFile call that reports a failed read (of the current file or
\* of the earlier first-seen file) leaves the primary index, the group map and
\* dupeCount as they were and does not end the walk.
C18_ReadFailureLeavesStateUnchanged ==
    [][(/\ pc = "walk"
        /\ Len(stdout') > Len(stdout)
        /\ stdout'[Len(stdout')].kind = ErrOpenLine(0).kind)
       => /\ h1HM' = h1HM
          /\ h2HM' = h2HM
          /\ dupeCount' = dupeCount
          /\ exitCode' = exitCode
          /\ idx' = idx + 1
          /\ pc' \in {"walk", "report"}]_vars

\* C18 witness: the re-read of file 1 failed while file 2 was processed, and
\* file 3 has then been processed into a group.
C18_Witness ==
    /\ HasLine(ErrOpenLine(2))
    /\ failedOpens = {1}
    /\ \E k \in DOMAIN h2HM : 3 \in Members(h2HM, k)

\* C19: the path in every "Error opening file" line is a path whose open or
\* read failed.
C19_ErrorNamesFailedFile ==
    \A i \in 1..Len(stdout) :
        stdout[i].kind = ErrOpenLine(0).kind => stdout[i].path \in failedOpens

\* The primary index maps each digest to the first file with that digest
\* whose own read succeeded.
FirstReadIndexed ==
    \A k \in DOMAIN h1HM :
        /\ h1HM[k] \in Observed
        /\ computeXXHash(fs[h1HM[k]]) = k
        /\ \A q \in Observed :
              (q < h1HM[k] /\ computeXXHash(fs[q]) = k) => q \in failedOpens

\* C20: every step leaves the existing entries of the primary index
\* unchanged; a step that adds an entry adds one and leaves the group map
\* unchanged; each entry is the first successfully read file of its digest.
C20_PrimaryIndexWrittenOnce ==
    [][/\ \A k \in DOMAIN h1HM : k \in DOMAIN h1HM' /\ h1HM'[k] = h1HM[k]
       /\ h1HM' # h1HM =>
             /\ h2HM' = h2HM
             /\ Cardinality(DOMAIN h1HM') = Cardinality(DOMAIN h1HM) + 1
       /\ FirstReadIndexed']_vars

\* C20 witness: file 1 could not be read, file 2 is the indexed file of the
\* digest, and file 3 has hit it.
C20_Witness ==
    /\ HasLine(ErrOpenLine(1))
    /\ \E k \in DOMAIN h1HM : h1HM[k] = 2 /\ computeXXHash(fs[1]) = k
    /\ \E g \in DOMAIN h2HM : 3 \in Members(h2HM, g)

(***************************************************************************)
(* C21                                                                     *)
(***************************************************************************)

\* C21: with every path passed to processFile once, in every state no group's
\* sequence holds the same path twice and no path is in two different groups.
C21_PathsUniqueInGroups ==
    /\ \A k \in DOMAIN h2HM :
          \A i, j \in 1..Len(h2HM[k]) : i # j => h2HM[k][i] # h2HM[k][j]
    /\ \A k1, k2 \in DOMAIN h2HM :
          k1 # k2 => Members(h2HM, k1) \cap Members(h2HM, k2) = {}

\* C21 witness: a first-seen file whose group has been seeded twice is in a
\* group of two, next to another group.
C21_Witness ==
    \E p \in DOMAIN hhCalls, k1, k2 \in DOMAIN h2HM :
        /\ hhCalls[p] >= 2
        /\ p \in Members(h2HM, k1)
        /\ Len(h2HM[k1]) >= 2
        /\ k2 # k1

====
